---------------------------- MODULE Spec2Model ----------------------------
(***************************************************************************)
(* rn-markdown-editor: the editing surface (src/src/PostEditor/            *)
(* PostEditor.tsx, second revision, lines 104-417), its content converter  *)
(* (src/unnamed/part_000, imported as ./markdown.tsx) and the host-side    *)
(* wrapper documented in src/README.md and src/USAGE.md.                   *)
(*                                                                         *)
(* Text is a sequence of tokens.  A token is one character ("a", " ",      *)
(* "\n", "*", "-", "1", ".", "<", ">") or one whole tag ("<p>", "</p>",    *)
(* "<u>", "<u class>", ...).  A string of the program is the               *)
(* concatenation of its tokens.                                            *)
(***************************************************************************)
EXTENDS Integers, Sequences, FiniteSets, Bags, TLC

(***************************************************************************)
(* Bounds of the model.                                                    *)
(***************************************************************************)
\* environment inputs (host calls, host sends, user events) in one session
MaxEvents == 3
\* nesting depth of the HTML a clipboard holds
MaxDepth == 2
\* lines of a plain text the host sets
MaxLines == 3

(***************************************************************************)
(* Tokens.                                                                 *)
(***************************************************************************)
OpenTags == {"<p>", "<em>", "<u>", "<u class>", "<br>", "<ul>", "<li>", "<div>",
             "<b>", "<b id>", "<a href>", "<a href class>", "<font>",
             "<font color>", "<span>", "<span style>", "<section>",
             "<article>"}
CloseTags == {"</p>", "</em>", "</u>", "</ul>", "</li>", "</div>", "</b>", "</a>",
              "</font>", "</span>", "</section>", "</article>"}
Tags == OpenTags \cup CloseTags
Letters == {"a", "b"}
Digits == {"1", "2"}
Blanks == {" ", "\n"}
\* the character U+2022 (BULLET)
Bullet == "bullet"

\* does the token contain the character ">"
HasGt(t) == t \in Tags \/ t = ">"

Range(s) == {s[i] : i \in 1..Len(s)}

RECURSIVE Flatten(_)
Flatten(ss) == IF ss = <<>> THEN <<>> ELSE Head(ss) \o Flatten(Tail(ss))

RECURSIVE Filter(_, _)
Filter(s, keep) ==
  IF s = <<>> THEN <<>>
  ELSE (IF Head(s) \in keep THEN <<Head(s)>> ELSE <<>>) \o Filter(Tail(s), keep)

(***************************************************************************)
(* Plain-Text Promoter: textToHtml, PostEditor.tsx lines 203-227.          *)
(***************************************************************************)
\* /<[a-z][\s\S]*>/i.test(text): a "<" directly followed by a letter and a
\* ">" anywhere after it.  An opening tag token holds all three itself.
looksLikeMarkup(text) ==
  \E i \in 1..Len(text) :
    \/ text[i] \in OpenTags
    \/ /\ text[i] = "<"
       /\ i + 1 <= Len(text)
       /\ text[i + 1] \in Letters
       /\ \E j \in (i + 2)..Len(text) : HasGt(text[j])

\* text.split('\n\n'): cut at every pair of newlines, left to right
RECURSIVE SplitParagraphs(_, _)
SplitParagraphs(text, cur) ==
  IF text = <<>> THEN <<cur>>
  ELSE IF Len(text) >= 2 /\ text[1] = "\n" /\ text[2] = "\n"
       THEN <<cur>> \o SplitParagraphs(SubSeq(text, 3, Len(text)), <<>>)
       ELSE SplitParagraphs(Tail(text), Append(cur, Head(text)))

\* paragraph.split('\n')
RECURSIVE SplitLines(_, _)
SplitLines(text, cur) ==
  IF text = <<>> THEN <<cur>>
  ELSE IF Head(text) = "\n"
       THEN <<cur>> \o SplitLines(Tail(text), <<>>)
       ELSE SplitLines(Tail(text), Append(cur, Head(text)))

RECURSIVE TrimStart(_)
TrimStart(s) ==
  IF s # <<>> /\ Head(s) \in Blanks THEN TrimStart(Tail(s)) ELSE s

RECURSIVE TrimEnd(_)
TrimEnd(s) ==
  IF s # <<>> /\ s[Len(s)] \in Blanks THEN TrimEnd(SubSeq(s, 1, Len(s) - 1)) ELSE s

\* line.trim()
Trim(s) == TrimEnd(TrimStart(s))

\* .filter(line => line.trim())
RECURSIVE NonBlankLines(_)
NonBlankLines(ls) ==
  IF ls = <<>> THEN <<>>
  ELSE (IF Trim(Head(ls)) # <<>> THEN <<Head(ls)>> ELSE <<>>) \o NonBlankLines(Tail(ls))

RECURSIVE SkipDigits(_)
SkipDigits(s) == IF s # <<>> /\ Head(s) \in Digits THEN SkipDigits(Tail(s)) ELSE s

\* /^\d+\./.test(line)
StartsWithOrdinal(line) ==
  /\ line # <<>>
  /\ Head(line) \in Digits
  /\ SkipDigits(line) # <<>>
  /\ Head(SkipDigits(line)) = "."

\* line.startsWith(BULLET) || line.startsWith('-') || /^\d+\./.test(line)
HasListMarker(line) ==
  \/ line # <<>> /\ Head(line) \in {Bullet, "-"}
  \/ StartsWithOrdinal(line)

\* item.replace(/^[BULLET-]\s*/, '').replace(/^\d+\.\s*/, '')
StripMarker(item) ==
  LET a == IF item # <<>> /\ Head(item) \in {Bullet, "-"}
           THEN TrimStart(Tail(item)) ELSE item
  IN  IF StartsWithOrdinal(a) THEN TrimStart(Tail(SkipDigits(a))) ELSE a

RECURSIVE ListItems(_)
ListItems(items) ==
  IF items = <<>> THEN <<>>
  ELSE <<"<li>">> \o StripMarker(Head(items)) \o <<"</li>">> \o ListItems(Tail(items))

\* listItems.join('<br>')
RECURSIVE JoinBr(_)
JoinBr(items) ==
  IF items = <<>> THEN <<>>
  ELSE IF Len(items) = 1 THEN Head(items)
  ELSE Head(items) \o <<"<br>">> \o JoinBr(Tail(items))

\* a map callback that makes a paragraph of every line
PromoteParagraphPerLine(paragraph) ==
  LET lines == NonBlankLines(SplitLines(paragraph, <<>>))
  IN  Flatten([i \in 1..Len(lines) |-> <<"<p>">> \o lines[i] \o <<"</p>">>])

\* the callback of .map(paragraph => ...)
PromoteParagraph(paragraph) ==
  LET lines == NonBlankLines(SplitLines(paragraph, <<>>))
      listItems == [i \in 1..Len(lines) |-> Trim(lines[i])]
  IN  IF Len(lines) = 0 THEN <<>>
      ELSE IF Len(lines) = 1 THEN <<"<p>">> \o lines[1] \o <<"</p>">>
      ELSE IF \E i \in 1..Len(listItems) : HasListMarker(listItems[i])
           THEN <<"<ul>">> \o ListItems(listItems) \o <<"</ul>">>
           ELSE <<"<p>">> \o JoinBr(listItems) \o <<"</p>">>

\* lines 209-226: the promotion of a text that is not markup
Promoted(text) ==
  LET ps == SplitParagraphs(text, <<>>)
  IN  Flatten([i \in 1..Len(ps) |-> PromoteParagraph(ps[i])])

textToHtml(text) == IF looksLikeMarkup(text) THEN text ELSE Promoted(text)

(***************************************************************************)
(* Content Converter: src/unnamed/part_000 (./markdown.tsx).  The unified  *)
(* pipelines are an external library; the operators below give what they   *)
(* produce on the miniature Markdown of this model: paragraphs of letters  *)
(* with *emphasis*.  Whether a call fails is decided where it is awaited.  *)
(***************************************************************************)
RECURSIVE RenderInline(_, _)
RenderInline(md, open) ==
  IF md = <<>> THEN <<>>
  ELSE IF Head(md) = "*"
       THEN <<IF open THEN "</em>" ELSE "<em>">> \o RenderInline(Tail(md), ~open)
       ELSE <<Head(md)>> \o RenderInline(Tail(md), open)

\* String(result) of remarkParse -> remarkGfm -> remarkHtml
RemarkHtml(markdown) ==
  IF Trim(markdown) = <<>> THEN <<>>
  ELSE <<"<p>">> \o RenderInline(Trim(markdown), FALSE) \o <<"</p>", "\n">>

RECURSIVE StringifyInline(_)
StringifyInline(html) ==
  IF html = <<>> THEN <<>>
  ELSE (IF Head(html) \in {"<em>", "</em>"} THEN <<"*">>
        ELSE IF Head(html) = "<br>" THEN <<"\n">>
        ELSE IF Head(html) \in Tags THEN <<>>
        ELSE <<Head(html)>>) \o StringifyInline(Tail(html))

\* String(result) of rehypeParse -> rehypeRemark -> remarkGfm -> remarkStringify
StringifyHtml(html) ==
  LET body == Trim(StringifyInline(html))
  IN  IF body = <<>> THEN <<>> ELSE body \o <<"\n">>

\* a markdownToHtml with the catch of htmlToMarkdown: the input comes back
markdownToHtmlFallback(markdown, fails) ==
  [ok |-> TRUE, result |-> IF fails THEN markdown ELSE RemarkHtml(markdown)]

\* markdownToHtml: no try/catch, a failure of the pipeline rejects the promise
markdownToHtml(markdown, fails) ==
  [ok |-> ~fails, result |-> RemarkHtml(markdown)]

\* htmlToMarkdown: the catch returns the original HTML
htmlToMarkdown(html, fails) ==
  [ok |-> TRUE, result |-> IF fails THEN html ELSE StringifyHtml(html)]


(***************************************************************************)
(* Sanitizer: cleanHtml, PostEditor.tsx lines 135-176, on the tree that    *)
(* temp.innerHTML = html builds from well-nested markup.                   *)
(***************************************************************************)
\* lines 140-153: the element's tag once every attribute but href and
\* target is removed
Bare(t) ==
  CASE t = "<u class>" -> "<u>"
    [] t = "<b id>" -> "<b>"
    [] t = "<a href class>" -> "<a href>"
    [] t = "<font color>" -> "<font>"
    [] t = "<span style>" -> "<span>"
    [] OTHER -> t

RECURSIVE RemoveAttributes(_)
RemoveAttributes(html) ==
  IF html = <<>> THEN <<>>
  ELSE <<Bare(Head(html))>> \o RemoveAttributes(Tail(html))

\* lines 155-160.  querySelectorAll('font') is a static list in document
\* order; replacing a font element by a span whose innerHTML is the font's
\* innerHTML puts copies of the font elements nested in it into the tree,
\* and the nested originals, next in the list, are no longer in the tree:
\* only the font elements that have no font ancestor (depth 0) are replaced
RECURSIVE ReplaceFonts(_, _)
ReplaceFonts(html, depth) ==
  IF html = <<>> THEN <<>>
  ELSE IF Head(html) = "<font>"
  THEN <<IF depth = 0 THEN "<span>" ELSE "<font>">>
         \o ReplaceFonts(Tail(html), depth + 1)
  ELSE IF Head(html) = "</font>" /\ depth > 0
  THEN <<IF depth = 1 THEN "</span>" ELSE "</font>">>
         \o ReplaceFonts(Tail(html), depth - 1)
  ELSE <<Head(html)>> \o ReplaceFonts(Tail(html), depth)

\* lines 163-173: tagsToRemove, with the end tags of the serialisation
tagsToRemove == {"<span>", "</span>", "<div>", "</div>", "<section>",
                 "</section>", "<article>", "</article>", "<u>", "</u>"}

\* a variant that removes each listed element together with its children
UnwrapRemoving(html) ==
  LET opening == {"<span>", "<div>", "<section>", "<article>", "<u>"}
      closing == tagsToRemove \ opening
      Inside(i) == Cardinality({j \in 1..i : html[j] \in opening})
                     > Cardinality({j \in 1..i : html[j] \in closing})
      keep == {i \in 1..Len(html) : html[i] \notin tagsToRemove /\ ~Inside(i)}
  IN  [k \in 1..Cardinality(keep) |->
         html[CHOOSE i \in keep : Cardinality({j \in keep : j <= i}) = k]]

\* lines 164-173: each element of the list gives way to its children
Unwrap(html) == Filter(html, Range(html) \ tagsToRemove)

cleanHtml(html) == Unwrap(ReplaceFonts(RemoveAttributes(html), 0))

(***************************************************************************)
(* Envelopes.  Every record of one direction has the same fields; a field  *)
(* the JSON object does not carry holds NoId, <<>> or "".                  *)
(***************************************************************************)
NoId == -1

\* surface -> host: JSON.stringify({type, ...})
Outbound(type, requestId, val, height) ==
  [type |-> type, requestId |-> requestId, value |-> val, height |-> height]

\* host -> surface: the serialized text; parses = JSON.parse does not throw
Inbound(type, hasValue, val, requestId, command) ==
  [parses |-> TRUE, type |-> type, hasValue |-> hasValue, value |-> val,
   requestId |-> requestId, command |-> command]

Malformed ==
  [parses |-> FALSE, type |-> "", hasValue |-> FALSE, value |-> <<>>,
   requestId |-> NoId, command |-> ""]

(***************************************************************************)
(* Inputs of the environment.                                              *)
(***************************************************************************)
\* the elements a clipboard's HTML is built from
Wrappers == {<<"<font color>", "</font>">>, <<"<span style>", "</span>">>,
             <<"<div>", "</div>">>, <<"<section>", "</section>">>,
             <<"<article>", "</article>">>, <<"<u class>", "</u>">>,
             <<"<b id>", "</b>">>, <<"<a href class>", "</a>">>}

\* well-nested markup around one text, up to the given depth; the parser
\* does not nest an a element in another
RECURSIVE Docs(_)
Docs(depth) ==
  IF depth = 0 THEN {<<"a">>}
  ELSE Docs(depth - 1) \cup
       UNION {{<<w[1]>> \o d \o <<w[2]>> :
                 d \in {e \in Docs(depth - 1) :
                          w[2] = "</a>" => "</a>" \notin Range(e)}} :
              w \in Wrappers}

\* text/html of the clipboard: one element, or two of depth 1 around a text
HtmlPayloads ==
  Docs(MaxDepth) \cup
  {d \o <<"b">> \o e : d \in Docs(1) \ {<<"a">>}, e \in Docs(1) \ {<<"a">>}}

\* text/plain of a clipboard without text/html: text with line ends, or
\* text that is itself markup
PlainPayloads == {<<"a">>, <<"a", "\n", "b">>} \cup (Docs(1) \ {<<"a">>})

\* lines of the plain texts the host sets
PromoteLines ==
  {<<"a">>, <<" ", "b">>, <<Bullet, " ", "a">>, <<"-", "b">>,
   <<"1", ".", " ", "a">>, <<"-", " ", "1", ".", "b">>, <<>>, <<" ">>}

\* the texts of n lines
RECURSIVE TextsOf(_)
TextsOf(n) ==
  IF n = 1 THEN PromoteLines
  ELSE {t \o <<"\n">> \o l : t \in TextsOf(n - 1), l \in PromoteLines}

\* plain texts of up to MaxLines lines, and texts with a "<"
PromoteTexts ==
  UNION {TextsOf(n) : n \in 1..MaxLines}
    \cup {<<"<b>", "a", "</b>">>, <<"<", "a", ">", "\n", "b">>,
          <<"a", "<", " ", "b">>}

\* the text the first revision starts with (line 23): a paragraph, three
\* bullet lines, a paragraph
FirstValue ==
  <<"a", "\n", "\n", Bullet, " ", "a", "\n", Bullet, " ", "b", "\n",
    Bullet, " ", "a", "\n", "\n", "b">>

\* Markdown texts the host sets
SetInputs == {<<"a">>, <<"*", "b", "*">>}
\* contents of the editing surface after a user edit (e.target.value)
EditContents == {<<"<div>", "b", "</div>">>, <<"<u>", "a", "</u>">>,
                 <<"<u class>", "a", "</u>">>}
\* scrollHeight of the root element
Heights == {20, 40}
\* what an integration layer pushes with webViewRef.current?.postMessage
\* (USAGE.md "Message Protocol"), and what a faulty one may push
HostEnvelopes ==
  {Malformed,
   Inbound("PING", FALSE, <<>>, NoId, ""),
   Inbound("EXECUTE_COMMAND", FALSE, <<>>, NoId, "bold"),
   Inbound("EXECUTE_COMMAND", FALSE, <<>>, NoId, "link"),
   Inbound("GET_VALUE", FALSE, <<>>, 0, ""),
   Inbound("GET_VALUE", FALSE, <<>>, 1, "")}
  \cup {Inbound("SET_VALUE", TRUE, v, NoId, "") : v \in SetInputs}

VARIABLES
  \* ---- editing surface (PostEditor.tsx) ----
  phase,                 \* "loading", "mounted", "unmounted"
  value,                 \* useState value: the Editor Live Value
  rendered,              \* value of the last committed render: what the
                         \* registered handleMessage closes over
  dom,                   \* innerHTML of the .rsw-editor element
  hasSentCaretPosition,  \* useRef(false)
  focused,               \* the focus is inside the .rsw-editor element
  caretTimers,           \* pending setTimeout(..., 500) of handleFocus
  heightTimers,          \* pending setTimeout(sendHeight, ...)
  scrollHeight,          \* layout height of the root element
  clipboard,             \* text/html and text/plain of the clipboard
  tasks,                 \* handleMessage calls suspended at their await
  \* ---- transport ----
  inbox,                 \* host -> surface, in flight
  outbox,                \* surface -> host, everything posted so far
  \* ---- host wrapper (README.md / USAGE.md) ----
  hostRead,              \* how many envelopes of outbox onMessage has seen
  wrapper,               \* which documented getValue the host uses
  webviewRef,            \* webviewRef.current is set
  requestIdCounter,
  now,                   \* Date.now()
  pendingRequests,       \* requestId -> index in calls, 0 when absent
  calls,                 \* the getValue() calls made, one record each
  isReady,
  readyEffectRan,        \* the [isReady, initialValue] effect has run
  initialValue,          \* props.initialValue
  currentValue,
  webViewHeight,
  \* ---- bookkeeping ----
  handled,               \* bag of the envelopes handleMessage was called with
  changes,               \* how often the Editor has called onChange
  pastes,                \* how often handlePaste has run
  inserted,              \* what the last handlePaste gave to insertHTML
  execCall,              \* the last handleCommand: what the prompt and the
                         \* selection gave, what execCommand was called with
  sessionCarets,         \* CARET_POSITION envelopes posted since the focus
                         \* came in
  failed,                \* the unified pipeline of the conversion that
                         \* finished last threw
  events                 \* environment inputs so far

surfaceVars == <<phase, value, rendered, dom, hasSentCaretPosition, caretTimers,
                 heightTimers, scrollHeight, tasks>>
hostVars == <<hostRead, wrapper, webviewRef, requestIdCounter, now,
              pendingRequests, calls, isReady, readyEffectRan, initialValue,
              currentValue, webViewHeight>>
focusVars == <<focused, sessionCarets>>
pasteVars == <<clipboard, pastes, inserted>>
vars == <<surfaceVars, inbox, outbox, hostVars, handled, failed, changes,
         focusVars, pasteVars, execCall, events>>

\* window.ReactNativeWebView, tested at lines 126, 268, 297, 351, 397: the
\* sessions modelled are those of a surface inside the host's WebView
\* (README.md line 3), which injects the bridge before the bundle runs;
\* a surface without it has no host to exchange envelopes with
ReactNativeWebView == TRUE

RequestIds == 0..MaxEvents

\* no handleCommand call has been made
NoCall == [url |-> "", selectedText |-> <<>>, command |-> "", argument |-> <<>>]

\* the session's start, for a host using the given getValue and
\* initialValue, and a surface whose useState has the given initial value
StartFrom(w, iv, v) ==
  /\ phase = "loading"
  /\ value = v
  /\ rendered = v
  /\ dom = v
  /\ hasSentCaretPosition = FALSE
  /\ caretTimers = 0
  /\ heightTimers = 0
  /\ scrollHeight = 20
  /\ tasks = <<>>
  /\ inbox = <<>>
  /\ outbox = <<>>
  /\ hostRead = 0
  /\ wrapper = w
  /\ webviewRef = TRUE
  /\ requestIdCounter = 0
  /\ now = 0
  /\ pendingRequests = [r \in RequestIds |-> 0]
  /\ calls = <<>>
  /\ isReady = FALSE
  /\ readyEffectRan = FALSE
  /\ initialValue = iv
  /\ currentValue = initialValue
  /\ webViewHeight = 300
  /\ handled = EmptyBag
  /\ failed = FALSE
  /\ changes = 0
  /\ focused = FALSE
  /\ sessionCarets = 0
  /\ pastes = 0
  /\ inserted = <<>>
  /\ execCall = NoCall
  /\ events = 0

\* the second revision: useState('')
Start(w, iv) == StartFrom(w, iv, <<>>)

\* a clipboard holding nothing but the text "a"
TextClipboard == [html |-> <<>>, plain |-> <<"a">>]

\* a clipboard holds text/html together with its text, or text/plain alone
Clipboards ==
  {[html |-> d, plain |-> Filter(d, Range(d) \ Tags)] : d \in HtmlPayloads}
    \cup {[html |-> <<>>, plain |-> t] : t \in PlainPayloads}

Init == Start("counter", <<"a">>) /\ clipboard = TextClipboard

HostInit == Start("counter", <<"*", "b", "*">>) /\ clipboard = TextClipboard

ClockHostInit ==
  Start("dateNow", <<"*", "b", "*">>) /\ clipboard = TextClipboard

PasteInit == Start("counter", <<"a">>) /\ clipboard \in Clipboards

\* the first revision, for every text the host may set
PromoteInit ==
  \E t \in PromoteTexts :
    StartFrom("counter", t, FirstValue) /\ clipboard = TextClipboard


(***************************************************************************)
(* Editing surface: PostEditor.tsx lines 120-417.                          *)
(***************************************************************************)
\* window.ReactNativeWebView.postMessage(JSON.stringify(...)), guarded
Post(envs) == outbox' = outbox \o (IF ReactNativeWebView THEN envs ELSE <<>>)

\* sendHeight, lines 294-305
HeightEnvelope(h) == Outbound("HEIGHT_CHANGED", NoId, <<>>, h)

\* element.textContent
TextContent(html) == Filter(html, (Range(html) \ Tags))

\* unwrapping of every u element, lines 381-391
UTags == {"<u>", "<u class>", "</u>"}
UnwrapU(html) == Filter(html, (Range(html) \ UTags))

\* newValue of handleChange, lines 377-392
ChangedValue(targetValue) ==
  IF "<u>" \in Range(targetValue) THEN UnwrapU(targetValue) ELSE targetValue

\* setValue of a mounted component; React drops it after unmount
SetValue(v) == value' = IF phase = "mounted" THEN v ELSE value

\* a handleChange that measures the height once: no setTimeout(sendHeight, 50)
handleChangeOnce(targetValue) ==
  /\ changes' = changes + 1
  /\ SetValue(ChangedValue(targetValue))
  /\ rendered' = value'
  /\ dom' = value'
  /\ Post(<<Outbound("VALUE_CHANGED", NoId, TextContent(targetValue), 0),
            HeightEnvelope(scrollHeight)>>)
  /\ UNCHANGED heightTimers

\* handleChange, lines 376-407, called with the surface's new content.  It
\* runs inside the Editor's input event, so React (19, README.md line 155)
\* commits the render and re-runs the [value] effect before the event
\* returns: the surface shows the new value and the listeners close over it
handleChange(targetValue) ==
  /\ changes' = changes + 1
  /\ SetValue(ChangedValue(targetValue))
  /\ rendered' = value'
  /\ dom' = value'
  /\ Post(<<Outbound("VALUE_CHANGED", NoId, TextContent(targetValue), 0),
            HeightEnvelope(scrollHeight)>>)
  /\ heightTimers' = heightTimers + 1

\* the four mount effects, in source order: lines 125-131, 133-292 (first
\* run), 327-341, 344-374
Mount ==
  /\ phase = "loading"
  /\ phase' = "mounted"
  /\ Post(<<Outbound("READY", NoId, <<>>, 0)>>)
  /\ rendered' = value
  /\ heightTimers' = heightTimers + 1
  /\ UNCHANGED <<value, dom, hasSentCaretPosition, caretTimers, scrollHeight,
                 tasks, inbox, hostVars, handled, failed, changes, focusVars, pasteVars, execCall, events>>

\* a render whose READY effect has no empty dependency list
RerenderReady ==
  /\ phase = "mounted"
  /\ rendered # value
  /\ rendered' = value
  /\ dom' = value
  /\ Post(<<Outbound("READY", NoId, <<>>, 0)>>)
  /\ UNCHANGED <<phase, value, hasSentCaretPosition, caretTimers, heightTimers,
                 scrollHeight, tasks, inbox, hostVars, handled, failed, changes, focusVars, pasteVars, execCall, events>>

\* a setValue made after an await (line 264) is rendered in a later task:
\* the Editor shows the new value, and the [value] effect (lines 133-292)
\* swaps the listeners for ones closing over it
Rerender ==
  /\ phase = "mounted"
  /\ rendered # value
  /\ rendered' = value
  /\ dom' = value
  /\ UNCHANGED <<phase, value, hasSentCaretPosition, caretTimers, heightTimers,
                 scrollHeight, tasks, inbox, outbox, hostVars, handled, failed, changes, focusVars, pasteVars, execCall, events>>

\* a 'message' event with no listener registered
DeliverUnheard ==
  /\ inbox # <<>>
  /\ phase # "mounted"
  /\ inbox' = Tail(inbox)
  /\ UNCHANGED <<surfaceVars, outbox, hostVars, handled, failed, changes, focusVars, pasteVars, execCall, events>>

\* the registered handleMessage is called with the head of the inbox
Enter ==
  /\ inbox # <<>>
  /\ phase = "mounted"
  /\ inbox' = Tail(inbox)
  /\ handled' = handled (+) SetToBag({Head(inbox)})

IsSetValue(data) == data.parses /\ data.type = "SET_VALUE" /\ data.hasValue
\* a GET_VALUE branch without its type test
IsGetValueLoose(data) == data.parses /\ ~IsSetValue(data)
IsGetValue(data) == data.parses /\ ~IsSetValue(data) /\ data.type = "GET_VALUE"
IsExecuteCommand(data) ==
  /\ data.parses
  /\ ~IsSetValue(data)
  /\ ~IsGetValue(data)
  /\ data.type = "EXECUTE_COMMAND"
  /\ data.command # ""

\* a handleMessage call suspended at its await: the converter was called
\* with arg; live is the Editor Live Value at that moment
Task(kind, arg, requestId) ==
  [kind |-> kind, arg |-> arg, requestId |-> requestId, live |-> value]

\* a catch block that takes the unparsable text as the new content
HandleMalformedAsText ==
  /\ Enter
  /\ LET data == Head(inbox) IN
    /\ ~data.parses
    /\ SetValue(<<"a">>)
    /\ UNCHANGED <<phase, rendered, dom, hasSentCaretPosition, caretTimers,
                   heightTimers, scrollHeight, tasks, outbox, hostVars, failed, changes, focusVars, pasteVars, execCall,
                   events>>

\* JSON.parse throws: lines 260, 278-280
HandleMalformed ==
  /\ Enter
  /\ LET data == Head(inbox) IN
    /\ ~data.parses
    /\ UNCHANGED <<surfaceVars, outbox, hostVars, failed, changes, focusVars, pasteVars, execCall, events>>

\* lines 261-263, up to the await
HandleSetValue ==
  /\ Enter
  /\ LET data == Head(inbox) IN
    /\ IsSetValue(data)
    /\ tasks' = Append(tasks, Task("set", data.value, NoId))
    /\ UNCHANGED <<phase, value, rendered, dom, hasSentCaretPosition,
                   caretTimers, heightTimers, scrollHeight, outbox, hostVars,
                   failed, changes, focusVars, pasteVars, execCall, events>>

\* lines 265-267, up to the await: value is the closure's
HandleGetValue ==
  /\ Enter
  /\ LET data == Head(inbox) IN
    /\ IsGetValue(data)
    /\ tasks' = Append(tasks, Task("get", rendered, data.requestId))
    /\ UNCHANGED <<phase, value, rendered, dom, hasSentCaretPosition,
                   caretTimers, heightTimers, scrollHeight, outbox, hostVars,
                   failed, changes, focusVars, pasteVars, execCall, events>>

\* document.execCommand on the surface's content
ExecCommand(command, html) ==
  CASE command = "createLink" -> <<"<a href>">> \o html \o <<"</a>">>
    [] command = "insertHTML" -> html \o <<"<a href>", "u", "</a>">>
    [] OTHER -> <<"<b>">> \o html \o <<"</b>">>

\* a handleCommand that inserts the URL whatever the selection is
CommandRunInsertOnly(command, url, selectedText) ==
  IF command = "link"
  THEN (IF url = "" THEN "" ELSE "insertHTML")
  ELSE command

\* handleCommand, lines 229-255: the command execCommand is called with,
\* "" when none is
CommandRun(command, url, selectedText) ==
  IF command = "link"
  THEN (IF url = "" THEN ""
        ELSE IF selectedText # <<>> THEN "createLink" ELSE "insertHTML")
  ELSE command

\* the value argument of that execCommand call: lines 241, 244-248, 253
CommandArgument(run, url) ==
  CASE run = "createLink" -> <<url>>
    [] run = "insertHTML" -> <<"<a href>", url, "</a>">>
    [] OTHER -> <<>>

\* lines 275-277.  url: what window.prompt returns ("" for null);
\* selected: the selection is not collapsed; applies: execCommand changes
\* the document, which fires the Editor's onChange
HandleExecuteCommand ==
  /\ Enter
  /\ LET data == Head(inbox) IN
   \E url \in {"", "u"}, selected \in BOOLEAN, applies \in BOOLEAN :
    LET selectedText == IF selected THEN TextContent(dom) ELSE <<>>
        run == CommandRun(data.command, url, selectedText)
    IN  /\ IsExecuteCommand(data)
        /\ IF run # "" /\ applies
           THEN handleChange(ExecCommand(run, dom))
           ELSE UNCHANGED <<value, rendered, dom, outbox, heightTimers,
                            changes>>
        /\ execCall' = [url |-> IF data.command = "link" THEN url ELSE "",
                        selectedText |->
                          IF data.command = "link" THEN selectedText ELSE <<>>,
                        command |-> run,
                        argument |-> CommandArgument(run, url)]
        /\ UNCHANGED <<phase, hasSentCaretPosition, caretTimers,
                       scrollHeight, tasks, hostVars, failed, focusVars,
                       pasteVars, events>>

\* no branch of lines 261-277 applies
HandleIgnored ==
  /\ Enter
  /\ LET data == Head(inbox) IN
    /\ data.parses
    /\ ~IsSetValue(data)
    /\ ~IsGetValue(data)
    /\ ~IsExecuteCommand(data)
    /\ UNCHANGED <<surfaceVars, outbox, hostVars, failed, changes, focusVars, pasteVars, execCall, events>>

RemoveAt(s, i) == SubSeq(s, 1, i - 1) \o SubSeq(s, i + 1, Len(s))

\* a SET_VALUE branch that drops its result when the Editor Live Value has
\* changed since the envelope arrived
CompleteSetValueCancelled ==
  \E i \in 1..Len(tasks), fails \in BOOLEAN :
    LET r == markdownToHtml(tasks[i].arg, fails)
    IN  /\ tasks[i].kind = "set"
        /\ failed' = fails
        /\ tasks' = RemoveAt(tasks, i)
        /\ IF r.ok /\ value = tasks[i].live
           THEN SetValue(textToHtml(r.result)) ELSE UNCHANGED value
        /\ UNCHANGED <<phase, rendered, dom, hasSentCaretPosition, caretTimers,
                       heightTimers, scrollHeight, inbox, outbox, hostVars,
                       handled, changes, focusVars, pasteVars, execCall, events>>

\* lines 263-264 after the await; a rejection lands in the catch, 278-280
CompleteSetValue ==
  \E i \in 1..Len(tasks), fails \in BOOLEAN :
    LET r == markdownToHtml(tasks[i].arg, fails)
    IN  /\ tasks[i].kind = "set"
        /\ failed' = fails
        /\ tasks' = RemoveAt(tasks, i)
        /\ IF r.ok THEN SetValue(textToHtml(r.result)) ELSE UNCHANGED value
        /\ UNCHANGED <<phase, rendered, dom, hasSentCaretPosition, caretTimers,
                       heightTimers, scrollHeight, inbox, outbox, hostVars,
                       handled, changes, focusVars, pasteVars, execCall, events>>

\* a response envelope without the requestId field
ValueResponseNoId(requestId, markdown) ==
  Outbound("VALUE_RESPONSE", NoId, markdown, 0)

\* the envelope of lines 269-273
ValueResponse(requestId, markdown) ==
  Outbound("VALUE_RESPONSE", requestId, markdown, 0)

\* a GET_VALUE branch that converts the Editor Live Value of the moment its
\* conversion ends instead of the value it was called with
CompleteGetValueLate ==
  \E i \in 1..Len(tasks), fails \in BOOLEAN :
    LET r == htmlToMarkdown(value, fails)
    IN  /\ tasks[i].kind = "get"
        /\ failed' = fails
        /\ tasks' = RemoveAt(tasks, i)
        /\ Post(<<Outbound("VALUE_RESPONSE", tasks[i].requestId, r.result, 0)>>)
        /\ UNCHANGED <<phase, value, rendered, dom, hasSentCaretPosition,
                       caretTimers, heightTimers, scrollHeight, inbox, hostVars,
                       handled, changes, focusVars, pasteVars, execCall, events>>

\* lines 267-274 after the await
CompleteGetValue ==
  \E i \in 1..Len(tasks), fails \in BOOLEAN :
    LET r == htmlToMarkdown(tasks[i].arg, fails)
    IN  /\ tasks[i].kind = "get"
        /\ failed' = fails
        /\ tasks' = RemoveAt(tasks, i)
        /\ IF r.ok
           THEN Post(<<ValueResponse(tasks[i].requestId, r.result)>>)
           ELSE UNCHANGED outbox
        /\ UNCHANGED <<phase, value, rendered, dom, hasSentCaretPosition,
                       caretTimers, heightTimers, scrollHeight, inbox, hostVars,
                       handled, changes, focusVars, pasteVars, execCall, events>>

\* the user edits the content: the Editor's onChange
UserEdit ==
  \E e \in EditContents :
    /\ phase = "mounted"
    /\ events < MaxEvents
    /\ events' = events + 1
    /\ e # dom
    /\ handleChange(e)
    /\ UNCHANGED <<phase, hasSentCaretPosition, caretTimers,
                   scrollHeight, tasks, inbox, hostVars, handled, failed,
                   focusVars, pasteVars, execCall>>

\* line 192: pastedContent.replace(/\n/g, '<br>')
RECURSIVE Breaks(_)
Breaks(text) ==
  IF text = <<>> THEN <<>>
  ELSE <<IF Head(text) = "\n" THEN "<br>" ELSE Head(text)>> \o Breaks(Tail(text))

\* lines 186-196: what handlePaste takes from the clipboard
PastedContent ==
  IF clipboard.html = <<>>
  THEN Breaks(clipboard.plain)
  ELSE cleanHtml(clipboard.html)

\* handlePaste, lines 179-200: insertHTML puts the content at the caret,
\* here the end of the surface's content, and the Editor calls onChange
Paste ==
  /\ phase = "mounted"
  /\ events < MaxEvents
  /\ events' = events + 1
  /\ pastes' = pastes + 1
  /\ inserted' = PastedContent
  /\ handleChange(dom \o PastedContent)
  /\ UNCHANGED <<phase, hasSentCaretPosition, caretTimers, scrollHeight,
                 tasks, inbox, hostVars, handled, failed, focusVars, clipboard,
                 execCall>>

\* a timer of line 328 or line 406 fires
HeightTimer ==
  /\ heightTimers > 0
  /\ heightTimers' = heightTimers - 1
  /\ Post(<<HeightEnvelope(scrollHeight)>>)
  /\ UNCHANGED <<phase, value, rendered, dom, hasSentCaretPosition, caretTimers,
                 scrollHeight, tasks, inbox, hostVars, handled, failed, changes, focusVars, pasteVars, execCall, events>>

\* an observer that reports a size change only when no height timer is
\* pending
ResizeDebounced ==
  \E h \in Heights \ {scrollHeight} :
    /\ events < MaxEvents
    /\ events' = events + 1
    /\ scrollHeight' = h
    /\ IF phase = "mounted" /\ heightTimers = 0
       THEN Post(<<HeightEnvelope(h)>>) ELSE UNCHANGED outbox
    /\ UNCHANGED <<phase, value, rendered, dom, hasSentCaretPosition,
                   caretTimers, heightTimers, tasks, inbox, hostVars, handled, failed, changes, focusVars, pasteVars, execCall>>

\* the root element changes size; the ResizeObserver of lines 332-336
\* reports it while it is connected
Resize ==
  \E h \in Heights \ {scrollHeight} :
    /\ events < MaxEvents
    /\ events' = events + 1
    /\ scrollHeight' = h
    /\ IF phase = "mounted" THEN Post(<<HeightEnvelope(h)>>) ELSE UNCHANGED outbox
    /\ UNCHANGED <<phase, value, rendered, dom, hasSentCaretPosition,
                   caretTimers, heightTimers, tasks, inbox, hostVars, handled, failed, changes, focusVars, pasteVars, execCall>>

\* the focus comes into the editor: a focus session begins.  handleFocus,
\* lines 345-359, up to the setTimeout
FocusIn ==
  /\ phase = "mounted"
  /\ ~focused
  /\ events < MaxEvents
  /\ events' = events + 1
  /\ focused' = TRUE
  /\ sessionCarets' = 0
  /\ caretTimers' = IF hasSentCaretPosition THEN caretTimers ELSE caretTimers + 1
  /\ UNCHANGED <<phase, value, rendered, dom, hasSentCaretPosition,
                 heightTimers, scrollHeight, tasks, inbox, outbox, hostVars,
                 handled, failed, changes, pasteVars, execCall>>

\* the focus leaves the editor: the focus session ends.  handleBlur, lines
\* 361-363
FocusOut ==
  /\ phase = "mounted"
  /\ focused
  /\ events < MaxEvents
  /\ events' = events + 1
  /\ focused' = FALSE
  /\ sessionCarets' = 0
  /\ hasSentCaretPosition' = FALSE
  /\ UNCHANGED <<phase, value, rendered, dom, caretTimers, heightTimers,
                 scrollHeight, tasks, inbox, outbox, hostVars, handled, failed,
                 changes, pasteVars, execCall>>

\* the callback of line 349; hasRange: getCaretPosition (307-324) finds a range
CaretTimer ==
  \E hasRange \in BOOLEAN :
    /\ caretTimers > 0
    /\ caretTimers' = caretTimers - 1
    /\ IF hasRange /\ ReactNativeWebView
       THEN /\ Post(<<Outbound("CARET_POSITION", NoId, <<>>, 0)>>)
            /\ hasSentCaretPosition' = TRUE
            /\ sessionCarets' = IF focused THEN sessionCarets + 1 ELSE 0
       ELSE UNCHANGED <<outbox, hasSentCaretPosition, sessionCarets>>
    /\ UNCHANGED <<phase, value, rendered, dom, heightTimers, scrollHeight,
                   tasks, inbox, hostVars, handled, failed, changes, pasteVars, execCall, focused,
                   events>>

\* the cleanups of lines 287-291, 338-340, 369-372
Unmount ==
  /\ phase = "mounted"
  /\ events < MaxEvents
  /\ events' = events + 1
  /\ phase' = "unmounted"
  /\ UNCHANGED <<value, rendered, dom, hasSentCaretPosition, caretTimers,
                 heightTimers, scrollHeight, tasks, inbox, outbox, hostVars,
                 handled, failed, changes, focusVars, pasteVars, execCall>>


(***************************************************************************)
(* The first revision of the surface: PostEditor.tsx lines 22-102.  Its    *)
(* SET_VALUE branch gives the envelope's value to textToHtml itself.       *)
(***************************************************************************)
\* the mount effect of lines 25-74: the listeners are registered, nothing
\* is posted
MountFirst ==
  /\ phase = "loading"
  /\ phase' = "mounted"
  /\ UNCHANGED <<value, rendered, dom, hasSentCaretPosition, caretTimers,
                 heightTimers, scrollHeight, tasks, inbox, outbox, hostVars,
                 handled, failed, changes, focusVars, pasteVars, execCall, events>>

\* handleMessage of lines 54-65: setValue(textToHtml(data.value))
HandleSetValueFirst ==
  /\ Enter
  /\ LET data == Head(inbox) IN
    /\ IsSetValue(data)
    /\ SetValue(textToHtml(data.value))
    /\ UNCHANGED <<phase, rendered, dom, hasSentCaretPosition, caretTimers,
                   heightTimers, scrollHeight, tasks, outbox, hostVars,
                   failed, changes, focusVars, pasteVars, execCall, events>>

(***************************************************************************)
(* Host wrapper: README.md lines 58-118, USAGE.md lines 239-322 (the       *)
(* counter-based getValue) and USAGE.md lines 430-453 (the getValue of     *)
(* "Error Handling Best Practices", keyed by Date.now()).                  *)
(***************************************************************************)
\* const requestId = `req_${requestIdCounter.current++}` / `req_${Date.now()}`
FreshRequestId == IF wrapper = "counter" THEN requestIdCounter ELSE now

\* pendingRequests.current.has(requestId)
Has(requestId) == requestId \in RequestIds /\ pendingRequests[requestId] # 0

\* pendingRequests.current.delete(requestId)
Delete(requestId) == [pendingRequests EXCEPT ![requestId] = 0]

\* webviewRef.current?.postMessage(JSON.stringify(envelope))
Send(envelope) == inbox' = IF webviewRef THEN Append(inbox, envelope) ELSE inbox

\* getValue(): README.md 66-79 = USAGE.md 253-273; USAGE.md 430-453 rejects
\* at once without a WebView ref
GetValueCall ==
  LET requestId == FreshRequestId
      failFast == wrapper = "dateNow" /\ ~webviewRef
      call == [requestId |-> requestId,
               sent |-> webviewRef,
               timer |-> IF failFast THEN "none" ELSE "armed",
               resolves |-> 0,
               rejects |-> IF failFast THEN 1 ELSE 0]
  IN  /\ events < MaxEvents
      /\ events' = events + 1
      /\ calls' = Append(calls, call)
      /\ requestIdCounter' =
           IF wrapper = "counter" THEN requestIdCounter + 1 ELSE requestIdCounter
      /\ IF failFast
         THEN UNCHANGED <<pendingRequests, inbox>>
         ELSE /\ pendingRequests' =
                   [pendingRequests EXCEPT ![requestId] = Len(calls) + 1]
              /\ Send(Inbound("GET_VALUE", FALSE, <<>>, requestId, ""))
      /\ UNCHANGED <<surfaceVars, outbox, hostRead, wrapper, webviewRef, now,
                     isReady, readyEffectRan, initialValue, currentValue,
                     webViewHeight, handled, failed, changes, focusVars, pasteVars, execCall>>

\* a timeout callback without the pendingRequests.has test
TimeoutNoCheck ==
  \E c \in 1..Len(calls) :
    /\ calls[c].timer = "armed"
    /\ pendingRequests' = Delete(calls[c].requestId)
    /\ calls' = [calls EXCEPT ![c].timer = "fired", ![c].rejects = @ + 1]
    /\ UNCHANGED <<surfaceVars, inbox, outbox, hostRead, wrapper, webviewRef,
                   requestIdCounter, now, isReady, readyEffectRan,
                   initialValue, currentValue, webViewHeight, handled, failed, changes, focusVars, pasteVars, execCall,
                   events>>

\* the setTimeout callback of call c: README.md 72-77, USAGE.md 266-271, 446-451
Timeout ==
  \E c \in 1..Len(calls) :
    LET requestId == calls[c].requestId
    IN  /\ calls[c].timer = "armed"
        /\ IF Has(requestId)
           THEN /\ pendingRequests' = Delete(requestId)
                /\ calls' = [calls EXCEPT ![c].timer = "fired",
                                          ![c].rejects = @ + 1]
           ELSE /\ calls' = [calls EXCEPT ![c].timer = "fired"]
                /\ UNCHANGED pendingRequests
        /\ UNCHANGED <<surfaceVars, inbox, outbox, hostRead, wrapper, webviewRef,
                       requestIdCounter, now, isReady, readyEffectRan,
                       initialValue, currentValue, webViewHeight, handled, failed, changes, focusVars, pasteVars, execCall,
                       events>>

\* an onMessage that resolves without pendingRequests.delete
OnMessageKeepsEntry ==
  /\ webviewRef
  /\ hostRead < Len(outbox)
  /\ hostRead' = hostRead + 1
  /\ LET data == outbox[hostRead + 1]
         resolved == data.type = "VALUE_RESPONSE" /\ Has(data.requestId)
     IN  /\ isReady' = (isReady \/ data.type = "READY")
         /\ currentValue' =
              IF data.type = "VALUE_CHANGED" THEN data.value ELSE currentValue
         /\ webViewHeight' =
              IF data.type = "HEIGHT_CHANGED" THEN data.height ELSE webViewHeight
         /\ calls' =
              IF resolved
              THEN [calls EXCEPT ![pendingRequests[data.requestId]].resolves = @ + 1]
              ELSE calls
  /\ UNCHANGED <<surfaceVars, inbox, outbox, wrapper, webviewRef,
                 requestIdCounter, now, pendingRequests, readyEffectRan,
                 initialValue, handled, failed, changes, focusVars, pasteVars, execCall, events>>

\* onMessage: README.md 99-115, USAGE.md 301-319
OnMessage ==
  /\ webviewRef
  /\ hostRead < Len(outbox)
  /\ hostRead' = hostRead + 1
  /\ LET data == outbox[hostRead + 1]
         resolved == data.type = "VALUE_RESPONSE" /\ Has(data.requestId)
     IN  /\ isReady' = (isReady \/ data.type = "READY")
         /\ currentValue' =
              IF data.type = "VALUE_CHANGED" THEN data.value ELSE currentValue
         /\ webViewHeight' =
              IF data.type = "HEIGHT_CHANGED" THEN data.height ELSE webViewHeight
         /\ calls' =
              IF resolved
              THEN [calls EXCEPT ![pendingRequests[data.requestId]].resolves = @ + 1]
              ELSE calls
         /\ pendingRequests' =
              IF resolved THEN Delete(data.requestId) ELSE pendingRequests
  /\ UNCHANGED <<surfaceVars, inbox, outbox, wrapper, webviewRef,
                 requestIdCounter, now, readyEffectRan, initialValue, handled, failed, changes, focusVars, pasteVars, execCall,
                 events>>

\* an initial-value effect that does not wait for isReady
ReadyEffectEager ==
  /\ webviewRef
  /\ ~readyEffectRan
  /\ readyEffectRan' = TRUE
  /\ currentValue' = initialValue
  /\ Send(Inbound("SET_VALUE", TRUE, initialValue, NoId, ""))
  /\ UNCHANGED <<surfaceVars, outbox, hostRead, wrapper, webviewRef,
                 requestIdCounter, now, pendingRequests, calls, isReady,
                 initialValue, webViewHeight, handled, failed, changes,
                 focusVars, pasteVars, execCall, events>>

\* the effect of USAGE.md 279-289 (README.md 83-89), once isReady is true
ReadyEffect ==
  /\ isReady
  /\ webviewRef
  /\ ~readyEffectRan
  /\ readyEffectRan' = TRUE
  /\ currentValue' = initialValue
  /\ Send(Inbound("SET_VALUE", TRUE, initialValue, NoId, ""))
  /\ UNCHANGED <<surfaceVars, outbox, hostRead, wrapper, webviewRef,
                 requestIdCounter, now, pendingRequests, calls, isReady,
                 initialValue, webViewHeight, handled, failed, changes, focusVars, pasteVars, execCall, events>>

\* any other webViewRef.current?.postMessage(...) of the integration layer
HostSend ==
  \E envelope \in HostEnvelopes :
    /\ events < MaxEvents
    /\ events' = events + 1
    /\ Send(envelope)
    /\ UNCHANGED <<surfaceVars, outbox, hostVars, handled, failed, changes, focusVars, pasteVars, execCall>>

\* the host sets its text: "Set Value", USAGE.md 108-114
HostSetValue ==
  /\ events < MaxEvents
  /\ events' = events + 1
  /\ Send(Inbound("SET_VALUE", TRUE, initialValue, NoId, ""))
  /\ UNCHANGED <<surfaceVars, outbox, hostVars, handled, failed, changes,
                 focusVars, pasteVars, execCall>>

\* the host component unmounts: the ref is cleared, onMessage is gone
HostUnmount ==
  /\ webviewRef
  /\ events < MaxEvents
  /\ events' = events + 1
  /\ webviewRef' = FALSE
  /\ UNCHANGED <<surfaceVars, inbox, outbox, hostRead, wrapper,
                 requestIdCounter, now, pendingRequests, calls, isReady,
                 readyEffectRan, initialValue, currentValue, webViewHeight,
                 handled, failed, changes, focusVars, pasteVars, execCall>>

\* a millisecond passes
Tick ==
  /\ events < MaxEvents
  /\ events' = events + 1
  /\ now' = now + 1
  /\ UNCHANGED <<surfaceVars, inbox, outbox, hostRead, wrapper, webviewRef,
                 requestIdCounter, pendingRequests, calls, isReady,
                 readyEffectRan, initialValue, currentValue, webViewHeight,
                 handled, failed, changes, focusVars, pasteVars, execCall>>

(***************************************************************************)
(* Spec: the Sync Engine of the editing surface (dispatch, conversions,    *)
(* edits, renders, caret reports, height reports) with a host that may     *)
(* push any envelope at any time.                                          *)
(***************************************************************************)
Next ==
  \/ Mount
  \/ Rerender
  \/ DeliverUnheard
  \/ HandleMalformed
  \/ HandleSetValue
  \/ HandleGetValue
  \/ HandleExecuteCommand
  \/ HandleIgnored
  \/ CompleteSetValue
  \/ CompleteGetValue
  \/ UserEdit
  \/ HeightTimer
  \/ Resize
  \/ FocusIn
  \/ FocusOut
  \/ CaretTimer
  \/ Unmount
  \/ HostSend

Spec == Init /\ [][Next]_vars

(***************************************************************************)
(* FairSpec: the surface under the events of its user and its page alone   *)
(* (no host envelopes), where a timer set by setTimeout fires.             *)
(***************************************************************************)
UserNext ==
  \/ Mount
  \/ UserEdit
  \/ HeightTimer
  \/ Resize
  \/ FocusIn
  \/ FocusOut
  \/ CaretTimer
  \/ Unmount

FairSpec ==
  Init /\ [][UserNext]_vars /\ WF_vars(HeightTimer) /\ WF_vars(CaretTimer)

(***************************************************************************)
(* PasteSpec: a surface whose user pastes what the clipboard holds, for    *)
(* every clipboard of Clipboards.                                          *)
(***************************************************************************)
PasteNext ==
  \/ Mount
  \/ Paste
  \/ HeightTimer
  \/ Unmount

PasteSpec == PasteInit /\ [][PasteNext]_vars

(***************************************************************************)
(* PromoteSpec: the first revision of the surface and a host that sets     *)
(* its text, for every text of PromoteTexts: textToHtml on plain text.     *)
(***************************************************************************)
PromoteNext ==
  \/ MountFirst
  \/ HostSetValue
  \/ DeliverUnheard
  \/ HandleSetValueFirst

PromoteSpec == PromoteInit /\ [][PromoteNext]_vars

(***************************************************************************)
(* HostSpec: the host wrapper with the counter-keyed getValue (README.md   *)
(* 58-118, USAGE.md 239-322) and the surface's handling of what it sends.  *)
(***************************************************************************)
HostNext ==
  \/ Mount
  \/ Rerender
  \/ DeliverUnheard
  \/ HandleSetValue
  \/ HandleGetValue
  \/ CompleteSetValue
  \/ CompleteGetValue
  \/ Unmount
  \/ GetValueCall
  \/ Timeout
  \/ OnMessage
  \/ ReadyEffect
  \/ HostUnmount

HostSpec == HostInit /\ [][HostNext]_vars

(***************************************************************************)
(* FairHostSpec: the round trip of getValue alone, from the call to the    *)
(* response or the timer, where a timer set by setTimeout fires.           *)
(***************************************************************************)
GetValueNext ==
  \/ Mount
  \/ DeliverUnheard
  \/ HandleGetValue
  \/ CompleteGetValue
  \/ Unmount
  \/ GetValueCall
  \/ Timeout
  \/ OnMessage
  \/ HostUnmount

FairHostSpec == HostInit /\ [][GetValueNext]_vars /\ WF_vars(Timeout)

(***************************************************************************)
(* ClockHostSpec: the same host with the getValue of USAGE.md 430-453,     *)
(* keyed by Date.now().                                                    *)
(***************************************************************************)
ClockHostNext ==
  \/ Mount
  \/ Rerender
  \/ DeliverUnheard
  \/ HandleSetValue
  \/ HandleGetValue
  \/ CompleteSetValue
  \/ CompleteGetValue
  \/ Unmount
  \/ GetValueCall
  \/ Timeout
  \/ OnMessage
  \/ ReadyEffect
  \/ HostUnmount
  \/ Tick

ClockHostSpec == ClockHostInit /\ [][ClockHostNext]_vars


(***************************************************************************)
(* Properties of the host's getValue.                                      *)
(***************************************************************************)
Calls == 1..MaxEvents
Made(c) == c <= Len(calls)
Settles(c) == calls[c].resolves + calls[c].rejects
Issued(c) == Made(c) /\ calls[c].sent
\* the envelopes of the given type onMessage has been called with
Seen(type, requestId) ==
  {i \in 1..hostRead :
     outbox[i].type = type /\ outbox[i].requestId = requestId}

\* C1: every getValue() call that issues a GetValue is settled exactly once: never more than once, and in the end
\* once, resolved by the response carrying its requestId or rejected by
\* its timer.
C1_SettlesExactlyOnce ==
  \A c \in Calls :
    /\ [](Issued(c) => Settles(c) <= 1)
    /\ Issued(c) ~> (Made(c) /\ Settles(c) = 1)

\* one call resolved before its timer fired, another rejected by its timer
\* before its response arrived
C1_Witness ==
  \E c, d \in Calls :
    /\ Issued(c) /\ Issued(d)
    /\ calls[c].resolves = 1 /\ calls[c].timer = "fired"
    /\ calls[d].rejects = 1 /\ Seen("VALUE_RESPONSE", calls[d].requestId) # {}

\* onMessage is called with a response whose requestId has no entry
LateResponse ==
  /\ hostRead' = hostRead + 1
  /\ outbox[hostRead + 1].type = "VALUE_RESPONSE"
  /\ ~Has(outbox[hostRead + 1].requestId)
\* the timer of a call fires when its requestId has no entry
LateTimer ==
  \E c \in 1..Len(calls) :
    /\ calls[c].timer = "armed"
    /\ calls'[c].timer = "fired"
    /\ ~Has(calls[c].requestId)

\* C2: a step removes at most one pending entry, and removes one exactly
\* when it settles the call the entry belongs to; a response that finds no
\* entry changes neither the map nor any promise, and a timer that finds
\* no entry rejects nothing.
C2_LosingPathIsNoOp ==
  [][
    LET removed == {r \in RequestIds : Has(r) /\ pendingRequests'[r] = 0}
        settled == {c \in 1..Len(calls) : Settles(c)' # Settles(c)}
    IN  /\ Cardinality(removed) <= 1
        /\ removed = {calls[c].requestId : c \in settled}
        /\ \A c \in settled :
             /\ Settles(c)' = Settles(c) + 1
             /\ pendingRequests[calls[c].requestId] = c
        /\ (LateResponse \/ LateTimer) =>
             /\ pendingRequests' = pendingRequests
             /\ settled = {}
  ]_vars

\* both losing paths have run: a timer fired after its call was resolved,
\* and a response arrived after its call was rejected
C2_Witness ==
  \E c, d \in Calls :
    /\ Made(c) /\ Made(d)
    /\ calls[c].resolves = 1 /\ calls[c].rejects = 0 /\ calls[c].timer = "fired"
    /\ calls[d].rejects = 1 /\ calls[d].resolves = 0
    /\ Seen("VALUE_RESPONSE", calls[d].requestId) # {}
    /\ \A r \in RequestIds : ~Has(r)

\* C3: two getValue() calls of one session never carry the same requestId.
C3_RequestIdsDistinct ==
  \A c, d \in Calls :
    (Made(c) /\ Made(d) /\ c # d) => calls[c].requestId # calls[d].requestId

(***************************************************************************)
(* Properties of the surface's inbound dispatch (Spec).                    *)
(***************************************************************************)
GetValue(requestId) == Inbound("GET_VALUE", FALSE, <<>>, requestId, "")
Posted(type) == {i \in 1..Len(outbox) : outbox[i].type = type}
Responses(requestId) ==
  {i \in Posted("VALUE_RESPONSE") : outbox[i].requestId = requestId}
InFlight(kind, requestId) ==
  {i \in 1..Len(tasks) :
     tasks[i].kind = kind /\ tasks[i].requestId = requestId}
\* handleMessage is called with the head of the inbox in this step
Handles(data) ==
  /\ phase = "mounted"
  /\ inbox # <<>>
  /\ Head(inbox) = data
  /\ inbox' = Tail(inbox)
\* the suspended call i goes on after its await in this step
Completes(i, kind) ==
  /\ i \in 1..Len(tasks)
  /\ tasks[i].kind = kind
  /\ tasks' = RemoveAt(tasks, i)

\* C4: for every requestId, the responses posted with it and the GetValue
\* calls still suspended with it add up to the GetValue envelopes handled
\* with it: each GetValue gets one response, carrying its requestId, and
\* no response is invented.
C4_OneResponsePerGetValue ==
  \A r \in RequestIds \cup {NoId} :
    Cardinality(Responses(r)) + Cardinality(InFlight("get", r))
      = CopiesIn(GetValue(r), handled)

\* a later GetValue is answered while an earlier one is still suspended
C4_Witness ==
  /\ Cardinality(Responses(1)) = 1
  /\ Cardinality(InFlight("get", 0)) = 1

\* C5: when the HTML-to-Markdown conversion of a GetValue fails, the
\* response is still posted, with the request's requestId and, unconverted,
\* the HTML that was the Editor Live Value when the GetValue was handled.
C5_FailedConversionAnswersHtml ==
  [][
    \A i \in 1..Len(tasks) :
      (Completes(i, "get") /\ failed') =>
        outbox' = Append(outbox, ValueResponse(tasks[i].requestId, tasks[i].live))
  ]_vars

\* C6: when the Markdown-to-HTML conversion of a SetValue fails, nothing
\* but the end of that call happens: the Editor Live Value, the surface,
\* the posted envelopes and the listener stay as they were.
C6_FailedSetValueChangesNothing ==
  [][
    \A i \in 1..Len(tasks) :
      (Completes(i, "set") /\ failed') =>
        UNCHANGED <<phase, value, rendered, dom, hasSentCaretPosition,
                    caretTimers, heightTimers, scrollHeight, inbox, outbox>>
  ]_vars

\* a SetValue failed on a surface with content, and the listener is there
C6_Witness ==
  /\ failed
  /\ phase = "mounted"
  /\ tasks = <<>>
  /\ value # <<>>
  /\ Posted("VALUE_RESPONSE") = {}
  /\ \E v \in SetInputs : BagIn(Inbound("SET_VALUE", TRUE, v, NoId, ""), handled)

\* C7: handling an envelope that does not parse changes neither the Editor
\* Live Value nor the caret flag, posts nothing, starts nothing and leaves
\* the listener registered.
C7_MalformedChangesNothing ==
  [][ Handles(Malformed) =>
        UNCHANGED <<phase, value, rendered, dom, hasSentCaretPosition,
                    caretTimers, heightTimers, scrollHeight, tasks, outbox>>
  ]_vars

\* a malformed envelope was handled, the surface has content and the caret
\* flag is set
C7_Witness ==
  /\ BagIn(Malformed, handled)
  /\ phase = "mounted"
  /\ value # <<>>
  /\ hasSentCaretPosition

\* C8: handling a well-formed envelope whose type is none of SET_VALUE,
\* GET_VALUE and EXECUTE_COMMAND changes nothing, posts nothing and starts
\* nothing.
C8_UnknownTypeIgnored ==
  [][
    \A data \in HostEnvelopes :
      (/\ data.parses
       /\ data.type \notin {"SET_VALUE", "GET_VALUE", "EXECUTE_COMMAND"}
       /\ Handles(data)) =>
        UNCHANGED <<phase, value, rendered, dom, hasSentCaretPosition,
                    caretTimers, heightTimers, scrollHeight, tasks, outbox>>
  ]_vars

\* an envelope of an unknown type was handled by a surface with content
C8_Witness ==
  /\ \E data \in HostEnvelopes :
       /\ data.parses
       /\ data.type \notin {"SET_VALUE", "GET_VALUE", "EXECUTE_COMMAND"}
       /\ BagIn(data, handled)
  /\ value # <<>>

\* C9: until the surface has mounted nothing is posted and no envelope is
\* handled; from then on the posted envelopes hold exactly one READY, and
\* it is the first of them.
C9_OneReadyFirst ==
  /\ phase = "loading" =>
       outbox = <<>> /\ handled = EmptyBag /\ tasks = <<>>
  /\ phase # "loading" =>
       Cardinality(Posted("READY")) = 1 /\ outbox[1].type = "READY"

\* a session with a handled SetValue, its render, and later envelopes
C9_Witness ==
  /\ phase = "mounted"
  /\ \E v \in SetInputs : BagIn(Inbound("SET_VALUE", TRUE, v, NoId, ""), handled)
  /\ value # <<>>
  /\ rendered = value
  /\ Len(outbox) >= 3

\* C10: the HTML a GetValue hands to the converter is the Editor Live Value
\* at the moment the envelope is handled: its response is the Markdown of
\* that value.
C10_GetValueReadsLiveValue ==
  \A i \in 1..Len(tasks) :
    tasks[i].kind = "get" =>
      StringifyHtml(tasks[i].arg) = StringifyHtml(tasks[i].live)


(***************************************************************************)
(* Properties of the surface's own events (FairSpec, Spec).                *)
(***************************************************************************)
\* the Editor calls onChange in this step
Changes == changes' = changes + 1
\* a setTimeout(sendHeight, ...) callback runs in this step
HeightTimerFires == heightTimers' < heightTimers

\* C11: every onChange call makes the new content the Editor Live Value,
\* posts one VALUE_CHANGED with the text of that content and, right after
\* it, one HEIGHT_CHANGED with the present height, and sets one more height
\* timer; every height timer fires, and when it does it posts one
\* HEIGHT_CHANGED with the height of that moment.
C11_ChangeNotifies ==
  /\ [][Changes =>
          /\ value' = dom'
          /\ outbox' = outbox \o
               <<Outbound("VALUE_CHANGED", NoId, TextContent(dom'), 0),
                 HeightEnvelope(scrollHeight)>>
          /\ heightTimers' = heightTimers + 1]_vars
  /\ [][HeightTimerFires =>
          /\ heightTimers' = heightTimers - 1
          /\ outbox' = Append(outbox, HeightEnvelope(scrollHeight))]_vars
  /\ \A n \in 1..(MaxEvents + 1) : (heightTimers = n) ~> (heightTimers < n)

\* two edits were notified and every height timer has fired: the posted
\* heights are those of the mount timer and two for each edit
C11_Witness ==
  /\ changes = 2
  /\ heightTimers = 0
  /\ Cardinality(Posted("VALUE_CHANGED")) = 2
  /\ Cardinality(Posted("HEIGHT_CHANGED")) = 5

\* C12: the VALUE_CHANGED posted by an onChange call carries the HTML that
\* the call makes the Editor Live Value.
C12_ValueChangedCarriesHtml ==
  [][Changes =>
       /\ Len(outbox') > Len(outbox)
       /\ outbox'[Len(outbox) + 1].type = "VALUE_CHANGED"
       /\ outbox'[Len(outbox) + 1].value = value']_vars

\* C13: between a focus-in and the next blur at most one CARET_POSITION is
\* posted.
C13_OneCaretPerSession == sessionCarets <= 1

\* C14: while the focus is outside the editor the Caret-Sent Flag is false,
\* so that the focus-in that begins the next session sets a caret timer.
C14_RearmedOnBlur == ~focused => ~hasSentCaretPosition

\* C15: mounting sets a height timer, so that a mounted surface posts a
\* HEIGHT_CHANGED also when its size never changes; and every size change
\* observed while the surface is mounted posts, in the same step, one
\* HEIGHT_CHANGED with the new height.
C15_HeightObserver ==
  /\ [][(phase = "loading" /\ phase' = "mounted") =>
          heightTimers' = heightTimers + 1]_vars
  /\ (phase = "mounted") ~> (Posted("HEIGHT_CHANGED") # {})
  /\ [][(phase = "mounted" /\ scrollHeight' # scrollHeight) =>
          outbox' = Append(outbox, HeightEnvelope(scrollHeight'))]_vars

\* with no edit at all, the mount timer and two size changes were reported
C15_Witness ==
  /\ phase = "mounted"
  /\ changes = 0
  /\ heightTimers = 0
  /\ Cardinality(Posted("HEIGHT_CHANGED")) = 3

(***************************************************************************)
(* Paste and the Sanitizer (cleanHtml).                                    *)
(***************************************************************************)
\* what the clipboard offers before handlePaste touches it: the HTML payload,
\* or the plain text with its newlines turned into line breaks
RawPaste ==
  IF clipboard.html = <<>> THEN Breaks(clipboard.plain) ELSE clipboard.html

PastedHtml == pastes > 0 /\ clipboard.html # <<>>

\* tags that carry an attribute other than href and target
AttributeTags == {"<u class>", "<b id>", "<a href class>", "<font color>",
                  "<span style>"}

\* tags of the elements the Sanitizer is to leave none of
WrapperTags == tagsToRemove \cup {"<font>", "</font>"}

\* C16: whatever a paste inserts, from an HTML payload or from plain text
\* (plain text that contains tags included), is the Sanitizer's output for
\* what the clipboard held, so it is the Editor Live Value that receives
\* only sanitized content.
C16_PasteIsSanitized ==
  pastes > 0 => inserted = cleanHtml(RawPaste)

\* C17: sanitizing the Sanitizer's output again changes nothing, for every
\* HTML payload, nested font, span, div, section, article and u included.
C17_SanitizeIdempotent == PastedHtml => cleanHtml(inserted) = inserted

\* C18: the Sanitizer's output for an HTML payload of any nesting depth has
\* no attribute other than href and target and no font, span, div, section,
\* article or u element.
C18_NoAttributesNoWrappers ==
  PastedHtml => Range(inserted) \cap (AttributeTags \cup WrapperTags) = {}

\* C19: the Sanitizer loses no text: the text nodes of its output, in
\* document order, are those of the HTML payload; what it removes from the
\* payload are attributes and wrapper tags only.
C19_SanitizeKeepsText ==
  PastedHtml =>
    /\ TextContent(inserted) = TextContent(clipboard.html)
    /\ Range(RemoveAttributes(clipboard.html)) \ Range(inserted)
         \subseteq WrapperTags

\* a payload with two text nodes and wrappers around the first was pasted
C19_Witness ==
  /\ PastedHtml
  /\ TextContent(inserted) = <<"a", "b", "a">>
  /\ Len(inserted) < Len(clipboard.html)

(***************************************************************************)
(* getValue() without a Transport target.                                  *)
(***************************************************************************)
\* call c was made while webviewRef.current was null
NoTarget(c) == Made(c) /\ ~calls[c].sent

\* C20: a getValue() call made while the host has no Transport target is
\* rejected in the call itself: it has been rejected once, no timer was set
\* for it and pendingRequests never held an entry for it.
C20_FailsFastWithoutTarget ==
  \A c \in Calls :
    NoTarget(c) =>
      /\ calls[c].rejects = 1
      /\ calls[c].timer = "none"
      /\ \A r \in RequestIds : pendingRequests[r] # c

(***************************************************************************)
(* Conversions that overlap.                                               *)
(***************************************************************************)
\* the value a VALUE_RESPONSE carries for the HTML it converts
MarkdownOf(html) == htmlToMarkdown(html, failed').result

\* the GET_VALUE call i goes on after its await while the Editor Live Value
\* is no longer the one it arrived at, and no user edit has been made: a
\* SET_VALUE finished its conversion in between
OvertakenGetValue(i) ==
  /\ Completes(i, "get")
  /\ changes = 0
  /\ value # tasks[i].live

\* C21, as stated: when a SetValue finishes converting while an older
\* GetValue is still waiting for its conversion, the response to that
\* GetValue carries the content the SetValue has set.
C21_OlderGetValueSeesNewerSetValue ==
  [][\A i \in 1..Len(tasks) :
       OvertakenGetValue(i) =>
         outbox' = Append(outbox,
                     ValueResponse(tasks[i].requestId, MarkdownOf(value)))]_vars

\* C21, amended: the response to a GetValue carries the conversion of the
\* value its handler read when the GetValue was handled.  The handler reads
\* it before its await and a suspended handler keeps it, so a SetValue that
\* finishes converting in between changes the Editor Live Value and not the
\* response.
C21_ResponseCarriesValueAtHandling ==
  /\ [][\A data \in HostEnvelopes :
          Handles(data) /\ IsGetValue(data) =>
            tasks' = Append(tasks, [kind |-> "get", arg |-> rendered,
                                    requestId |-> data.requestId,
                                    live |-> value])]_vars
  /\ [][\A t \in Range(tasks') \ Range(tasks) : inbox' = Tail(inbox)]_vars
  /\ [][\A i \in 1..Len(tasks) :
          Completes(i, "get") =>
            outbox' = Append(outbox,
                        ValueResponse(tasks[i].requestId,
                                      MarkdownOf(tasks[i].arg)))]_vars

\* a GetValue that arrived at the empty surface is still waiting for its
\* conversion while a SetValue has finished its own and set the content
C21_Witness ==
  /\ changes = 0
  /\ value # <<>>
  /\ \E i \in 1..Len(tasks) :
       /\ tasks[i].kind = "get"
       /\ tasks[i].live = <<>>
       /\ tasks[i].arg = <<>>

\* C22: SetValue envelopes take effect in the order they were sent: the
\* conversion of a SetValue never finishes, and sets the Editor Live Value,
\* while a SetValue with other content that was sent before it is still
\* waiting for its own conversion; so the one sent last is the one whose
\* HTML the Editor Live Value holds in the end.
C22_SetValuesApplyInSendOrder ==
  [][\A i \in 1..Len(tasks) :
       Completes(i, "set") =>
         \A j \in 1..(i - 1) :
           tasks[j].kind = "set" => tasks[j].arg = tasks[i].arg]_vars

\* what a SET_VALUE with the given value sets when its conversion succeeds
HtmlOf(markdown) == textToHtml(RemarkHtml(markdown))

\* C23: a conversion in flight is never cancelled: when the conversion of a
\* SetValue succeeds on a mounted surface, the Editor Live Value becomes
\* that SetValue's HTML, whatever a user edit or another SetValue has made
\* of the Editor Live Value since the envelope arrived.
C23_InFlightConversionApplies ==
  [][\A i \in 1..Len(tasks) :
       Completes(i, "set") /\ ~failed' /\ phase = "mounted" =>
         value' = HtmlOf(tasks[i].arg)]_vars

\* a SetValue is waiting for its conversion and a user edit has changed
\* the Editor Live Value since it arrived
C23_Witness ==
  /\ phase = "mounted"
  /\ changes > 0
  /\ \E i \in 1..Len(tasks) :
       /\ tasks[i].kind = "set"
       /\ tasks[i].live # value
       /\ value # HtmlOf(tasks[i].arg)

\* C24: what a SetValue{value: v} sets is decided by v alone: the HTML the
\* converter made of v goes through the Plain-Text Promoter's
\* transformation when v is not markup, and is set as it is when v is
\* markup; the converter's output has no part in the decision.
C24_PromotionDecidedByOriginal ==
  [][\A i \in 1..Len(tasks) :
       Completes(i, "set") /\ ~failed' /\ phase = "mounted" =>
         value' = IF looksLikeMarkup(tasks[i].arg)
                  THEN RemarkHtml(tasks[i].arg)
                  ELSE Promoted(RemarkHtml(tasks[i].arg))]_vars

(***************************************************************************)
(* Plain-Text Promoter.                                                    *)
(***************************************************************************)
\* the surface has handled the host's SET_VALUE: the Editor Live Value is
\* what textToHtml made of the host's text
Promotes == handled # EmptyBag

\* the groups of a text, cut at every empty line
Groups(text) == SplitParagraphs(text, <<>>)
\* the non-blank lines of a group
GroupLines(g) == NonBlankLines(SplitLines(g, <<>>))
\* a group of several lines of which one begins with a list marker
IsListGroup(g) ==
  /\ Len(GroupLines(g)) >= 2
  /\ \E i \in 1..Len(GroupLines(g)) : HasListMarker(Trim(GroupLines(g)[i]))

\* nothing, the paragraph of the one line, or the paragraph of the lines
\* joined by line breaks
ParagraphOf(g) ==
  LET ls == GroupLines(g)
  IN  IF Len(ls) = 0 THEN <<>>
      ELSE IF Len(ls) = 1 THEN <<"<p>">> \o ls[1] \o <<"</p>">>
      ELSE <<"<p>">> \o JoinBr([i \in 1..Len(ls) |-> Trim(ls[i])]) \o <<"</p>">>

\* a line without its leading marker: the bullet, the hyphen or the ordinal
\* it begins with, and the blanks after it
WithoutMarker(line) ==
  IF line # <<>> /\ Head(line) \in {Bullet, "-"} THEN TrimStart(Tail(line))
  ELSE IF StartsWithOrdinal(line) THEN TrimStart(Tail(SkipDigits(line)))
  ELSE line

\* the unordered list with one item per line
ListOf(g) ==
  LET ls == GroupLines(g)
  IN  <<"<ul>">>
        \o Flatten([i \in 1..Len(ls) |->
                      <<"<li>">> \o WithoutMarker(Trim(ls[i])) \o <<"</li>">>])
        \o <<"</ul>">>

\* C25: textToHtml returns markup as it is; of any other text it makes the
\* outputs of the groups, in order: nothing for a group without a non-blank
\* line, a paragraph for a group of one line, a paragraph of the lines
\* joined by line breaks for a group of several lines without list marker.
C25_PromoteParagraphs ==
  Promotes =>
    IF looksLikeMarkup(initialValue) THEN value = initialValue
    ELSE LET gs == Groups(initialValue)
         IN  (\A i \in 1..Len(gs) : ~IsListGroup(gs[i])) =>
               value = Flatten([i \in 1..Len(gs) |-> ParagraphOf(gs[i])])

\* two lines, the second indented, have become one paragraph
C25_Witness ==
  /\ Promotes
  /\ initialValue = <<"a", "\n", " ", "b">>
  /\ value = <<"<p>", "a", "<br>", "b", "</p>">>

\* C26: a group of two or more non-blank lines of which one begins with a
\* bullet, a hyphen or an ordinal becomes an unordered list with one item
\* per line, in order, each item being the trimmed line without its leading
\* marker and with nothing else removed.
C26_PromoteLists ==
  Promotes /\ ~looksLikeMarkup(initialValue) =>
    LET gs == Groups(initialValue)
    IN  value = Flatten([i \in 1..Len(gs) |->
                  IF IsListGroup(gs[i]) THEN ListOf(gs[i])
                  ELSE ParagraphOf(gs[i])])

(***************************************************************************)
(* Formatting commands.                                                    *)
(***************************************************************************)
\* C27: an ExecuteCommand with command link changes nothing when the prompt
\* gives no URL; with a URL and a non-empty selection it has the selection
\* made a hyperlink to the URL; with a URL and an empty selection it has a
\* hyperlink inserted whose text and target are the URL.  Any other command
\* goes to execCommand as it came.
C27_LinkCommand ==
  [][\A data \in HostEnvelopes :
       Handles(data) /\ IsExecuteCommand(data) =>
         LET c == execCall'
             u == c.url
         IN  IF data.command = "link"
             THEN /\ u = "" =>
                       /\ c.command = ""
                       /\ value' = value /\ dom' = dom /\ outbox' = outbox
                  /\ u # "" /\ c.selectedText # <<>> =>
                       /\ c.command = "createLink" /\ c.argument = <<u>>
                       /\ dom' \in {dom, <<"<a href>">> \o dom \o <<"</a>">>}
                  /\ u # "" /\ c.selectedText = <<>> =>
                       /\ c.command = "insertHTML"
                       /\ c.argument = <<"<a href>", u, "</a>">>
                       /\ dom' \in {dom, dom \o <<"<a href>", u, "</a>">>}
             ELSE c.command = data.command /\ c.argument = <<>>]_vars

\* a link command has wrapped the selected content in a hyperlink
C27_Witness ==
  /\ execCall.command = "createLink"
  /\ execCall.selectedText # <<>>
  /\ dom = <<"<a href>">> \o execCall.selectedText \o <<"</a>">>
  /\ value = dom

(***************************************************************************)
(* Teardown.                                                               *)
(***************************************************************************)
\* C28: once the surface is unmounted it posts nothing more: no
\* HEIGHT_CHANGED of the mount timer, of the timer set after an edit or of
\* the size observer, and no CARET_POSITION of a pending caret timer.
C28_SilentAfterUnmount == [][phase = "unmounted" => outbox' = outbox]_vars

(***************************************************************************)
(* Underline.                                                              *)
(***************************************************************************)
\* C29: every onChange call on a mounted surface leaves an Editor Live
\* Value that holds no u element, with or without attributes.
C29_NoUnderlineAfterEdit ==
  [][Changes /\ phase = "mounted" => Range(value') \cap UTags = {}]_vars

(***************************************************************************)
(* The initial value.                                                      *)
(***************************************************************************)
\* the host pushes a SET_VALUE in this step
SendsSetValue ==
  /\ Len(inbox') = Len(inbox) + 1
  /\ inbox'[Len(inbox')].type = "SET_VALUE"
\* the surface posts READY in this step
PostsReady ==
  \E i \in (Len(outbox) + 1)..Len(outbox') : outbox'[i].type = "READY"
\* a SET_VALUE is delivered to the page in this step
DeliversSetValue ==
  /\ inbox # <<>>
  /\ inbox' = Tail(inbox)
  /\ Head(inbox).type = "SET_VALUE"

\* C30: the host sends SET_VALUE only when its onMessage has been called
\* with READY; the step that posts READY leaves the surface with its
\* listener registered; so a SET_VALUE delivered to a surface that has not
\* been torn down is handled by handleMessage, never dropped.
C30_InitialSetValueNotLost ==
  /\ [][SendsSetValue =>
          /\ isReady
          /\ \E i \in 1..hostRead : outbox[i].type = "READY"]_vars
  /\ [][PostsReady => phase' = "mounted"]_vars
  /\ [][DeliversSetValue /\ phase # "unmounted" =>
          /\ phase = "mounted"
          /\ handled' = handled (+) SetToBag({Head(inbox)})
          /\ Len(tasks') = Len(tasks) + 1]_vars

\* the host has received READY and the surface has handled the SET_VALUE
\* of the initial value and set it
C30_Witness ==
  /\ isReady
  /\ readyEffectRan
  /\ BagIn(Inbound("SET_VALUE", TRUE, initialValue, NoId, ""), handled)
  /\ value = HtmlOf(initialValue)

=============================================================================
